---- MODULE Spec2Model ----
(***************************************************************************)
(* pdf_to_images.py: main() parses the command line and calls              *)
(* convert_pdf_to_images(), which validates the source path, creates the   *)
(* output folder, opens the document, and renders and saves every page.    *)
(* The process is modelled statement by statement; the output folder and   *)
(* its files persist from one run of the script to the next.               *)
(***************************************************************************)
EXTENDS Integers, Sequences, FiniteSets, TLC

MaxPages == 2       \* largest page count a document reports
MaxRuns == 2        \* times the same command line is run on the same folder

DefaultDpi == 300   \* --dpi default
BaseDpi == 72       \* PyMuPDF's base resolution

(* ---------------- command line and file system inputs ---------------- *)

\* final path components given to --pdf, as character sequences
SourcePaths ==
    { <<"a", ".", "p", "d", "f">>,
      <<"a", ".", "P", "D", "F">>,
      <<"a", ".", "t", "x", "t">>,
      <<".", "p", "d", "f">> }

\* the --dpi token: absent, a decimal integer, or text int() rejects
DpiTokens ==
    { [kind |-> "absent", val |-> 0],
      [kind |-> "int", val |-> 0],
      [kind |-> "int", val |-> 150],
      [kind |-> "int", val |-> -72],
      [kind |-> "bad", val |-> 0] }

DefaultFormat == <<"p", "n", "g">>

\* the --format token: absent or a string
FormatTokens ==
    { [given |-> FALSE, val |-> <<>>],
      [given |-> TRUE, val |-> <<"j", "p", "g">>] }

\* a command line: --pdf, --dpi and --format (--output is the one folder)
CommandLines ==
    [pdf : SourcePaths, dpi : DpiTokens, format : FormatTokens]

\* what is at the source path: a regular file or not, whether fitz.open
\* can parse it, and the page count of the document it holds
SourceFiles ==
    { [isfile |-> FALSE, parsable |-> FALSE, page_count |-> 0],
      [isfile |-> TRUE, parsable |-> FALSE, page_count |-> 0] }
    \cup { [isfile |-> TRUE, parsable |-> TRUE, page_count |-> n] : n \in 0..MaxPages }

(* ---------------- pure helpers ---------------- *)

\* str.lower() on the characters that occur in SourcePaths
LowerChar(c) ==
    CASE c = "P" -> "p"
      [] c = "D" -> "d"
      [] c = "F" -> "f"
      [] OTHER -> c

LowerStr(s) == [i \in 1..Len(s) |-> LowerChar(s[i])]

\* str.rfind('.') as a 1-based position, 0 when there is no dot
RFindDot(name) ==
    LET dots == {i \in 1..Len(name) : name[i] = "."}
    IN IF dots = {} THEN 0 ELSE CHOOSE i \in dots : \A j \in dots : j <= i

\* pathlib's PurePath.suffix: the last dot must be neither first nor last
Suffix(name) ==
    LET i == RFindDot(name)
    IN IF 1 < i /\ i < Len(name) THEN SubSeq(name, i, Len(name)) ELSE <<>>

ValidInput_NoFileCheck(name, isfile) ==
    LowerStr(Suffix(name)) = <<".", "p", "d", "f">>

\* negation of the condition on line 24
ValidInput(name, isfile) ==
    isfile /\ LowerStr(Suffix(name)) = <<".", "p", "d", "f">>

DigitChars == <<"0", "1", "2", "3", "4", "5", "6", "7", "8", "9">>

RECURSIVE ToStr(_)
\* decimal formatting of a non-negative integer by the f-string
ToStr(n) ==
    IF n < 10 THEN <<DigitChars[n + 1]>>
    ELSE ToStr(n \div 10) \o <<DigitChars[(n % 10) + 1]>>

\* f"master_page_{page_num + 1}.{img_format}"
OutputFilename(page_num, fmt) ==
    <<"master_page_">> \o ToStr(page_num + 1) \o <<".">> \o fmt

Abs(n) == IF n < 0 THEN 0 - n ELSE n

RECURSIVE GCD(_, _)
GCD(a, b) == IF b = 0 THEN a ELSE GCD(b, a % b)

Rat(n, d) ==
    LET g == GCD(Abs(n), d) IN [num |-> n \div g, den |-> d \div g]

ScaleFactor_IntDiv(dpi) == Rat(dpi \div BaseDpi, 1)

\* dpi / 72.0, kept as the fraction in lowest terms
ScaleFactor(dpi) == Rat(dpi, BaseDpi)

Zero == Rat(0, 1)

\* fitz.Matrix(sx, sy): a scaling matrix (a, b, c, d, e, f)
Matrix(sx, sy) ==
    [a |-> sx, b |-> Zero, c |-> Zero, d |-> sy, e |-> Zero, f |-> Zero]

NoMatrix == Matrix(Zero, Zero)

\* the pixel buffer get_pixmap returns: a function of file, page and matrix
Pixmap(src, page_num, m) == [src |-> src, page |-> page_num, mat |-> m]

NoPix == Pixmap(<<>>, 0, NoMatrix)

WriteFile_NoOverwrite(fs, name, content) ==
    IF \E f \in fs : f.name = name
    THEN fs \cup {[name |-> name \o <<"(", ToStr(Cardinality(fs)), ")">>,
                   content |-> content]}
    ELSE fs \cup {[name |-> name, content |-> content]}

\* pix.save(path): creates the file or replaces the one of that name
WriteFile(fs, name, content) ==
    {f \in fs : f.name # name} \cup {[name |-> name, content |-> content]}

Msg(kind, n) == [kind |-> kind, n |-> n]

(* ---------------- state ---------------- *)

VARIABLES
    run,            \* number of runs of the script started so far
    pc,             \* position of the running process
    argv,           \* the command line of the runs
    src,            \* what is at the source path
    args,           \* parsed arguments: pdf, dpi, format
    doc,            \* the document handle: state and page_count
    scale_factor,   \* line 44
    mat,            \* line 45
    page_num,       \* loop variable of line 48
    pix,            \* line 52
    dirExists,      \* the output folder exists
    files,          \* files in the output folder: name and content
    mkdirCalls,     \* calls of mkdir in this run
    openAttempts,   \* calls of fitz.open in this run
    loaded,         \* page numbers load_page returned for, in order
    rendered,       \* get_pixmap results of this run, in order
    saveAttempts,   \* pix.save calls of this run, in order
    out,            \* lines printed to standard output in this run
    exitCode,       \* exit status, -1 while running
    uncaught,       \* the call whose exception ended the run, or "none"
    prev            \* how the previous run ended

vars == <<run, pc, argv, src, args, doc, scale_factor, mat, page_num, pix,
          dirExists, files, mkdirCalls, openAttempts, loaded, rendered,
          saveAttempts, out, exitCode, uncaught, prev>>

NoArgs == [pdf |-> <<>>, dpi |-> 0, format |-> <<>>]
NoDoc == [state |-> "none", page_count |-> 0]

SavedPages == {saveAttempts[i].page : i \in {j \in 1..Len(saveAttempts) : saveAttempts[j].ok}}
FailedPages == {saveAttempts[i].page : i \in {j \in 1..Len(saveAttempts) : ~saveAttempts[j].ok}}

\* what is remembered of a finished run
Snapshot ==
    [valid |-> TRUE, uncaught |-> uncaught, page_num |-> page_num,
     saved |-> SavedPages, exitCode |-> exitCode, files |-> files]

NoPrev ==
    [valid |-> FALSE, uncaught |-> "none", page_num |-> 0,
     saved |-> {}, exitCode |-> -1, files |-> {}]

NoCommandLine ==
    [pdf |-> <<>>, dpi |-> [kind |-> "absent", val |-> 0],
     format |-> [given |-> FALSE, val |-> <<>>]]

Init ==
    /\ run = 0
    /\ pc = "idle"
    /\ argv = NoCommandLine
    /\ src = [isfile |-> FALSE, parsable |-> FALSE, page_count |-> 0]
    /\ args = NoArgs
    /\ doc = NoDoc
    /\ scale_factor = Zero
    /\ mat = NoMatrix
    /\ page_num = 0
    /\ pix = NoPix
    /\ dirExists = FALSE
    /\ files = {}
    /\ mkdirCalls = 0
    /\ openAttempts = 0
    /\ loaded = <<>>
    /\ rendered = <<>>
    /\ saveAttempts = <<>>
    /\ out = <<>>
    /\ exitCode = -1
    /\ uncaught = "none"
    /\ prev = NoPrev

(* ---------------- main ---------------- *)

\* the script is started on a command line and a source file of its
\* choice, and started again on the same ones after it has ended
Launch(cl, s) ==
    /\ run < MaxRuns
    /\ \/ pc = "idle"
       \/ pc = "exit" /\ cl = argv /\ s = src
    /\ argv' = cl
    /\ src' = s

\* a fresh process: everything but the output folder starts over
FreshProcess ==
    /\ run' = run + 1
    /\ prev' = IF pc = "exit" THEN Snapshot ELSE NoPrev
    /\ doc' = NoDoc
    /\ scale_factor' = Zero
    /\ mat' = NoMatrix
    /\ page_num' = 0
    /\ pix' = NoPix
    /\ mkdirCalls' = 0
    /\ openAttempts' = 0
    /\ loaded' = <<>>
    /\ rendered' = <<>>
    /\ saveAttempts' = <<>>
    /\ uncaught' = "none"
    /\ UNCHANGED <<dirExists, files>>

\* main(): parse_args accepts the arguments and convert_pdf_to_images starts
Main(cl, s) ==
    /\ Launch(cl, s)
    /\ cl.dpi.kind # "bad"
    /\ FreshProcess
    /\ args' = [pdf |-> cl.pdf,
                dpi |-> IF cl.dpi.kind = "absent" THEN DefaultDpi ELSE cl.dpi.val,
                format |-> IF cl.format.given THEN cl.format.val ELSE DefaultFormat]
    /\ out' = <<>>
    /\ exitCode' = -1
    /\ pc' = "validate"

\* main(): type=int rejects the --dpi token, argparse exits with status 2
MainUsageError(cl, s) ==
    /\ Launch(cl, s)
    /\ cl.dpi.kind = "bad"
    /\ FreshProcess
    /\ args' = NoArgs
    /\ out' = <<>>
    /\ exitCode' = 2
    /\ pc' = "exit"

(* ---------------- convert_pdf_to_images ---------------- *)

Unchanged_Run ==
    UNCHANGED <<run, argv, src, args, prev>>

\* lines 24-26
ValidateFail ==
    /\ pc = "validate"
    /\ ~ValidInput(args.pdf, src.isfile)
    /\ out' = Append(out, Msg("invalid", 0))
    /\ exitCode' = 1
    /\ pc' = "exit"
    /\ Unchanged_Run
    /\ UNCHANGED <<doc, scale_factor, mat, page_num, pix, dirExists, files,
                   mkdirCalls, openAttempts, loaded, rendered, saveAttempts,
                   uncaught>>

\* line 24, condition false
ValidateOk ==
    /\ pc = "validate"
    /\ ValidInput(args.pdf, src.isfile)
    /\ pc' = "mkdir"
    /\ Unchanged_Run
    /\ UNCHANGED <<doc, scale_factor, mat, page_num, pix, dirExists, files,
                   mkdirCalls, openAttempts, loaded, rendered, saveAttempts,
                   out, exitCode, uncaught>>

\* line 29, mkdir raises (no permission, a file of that name)
MkdirFail ==
    /\ pc = "mkdir"
    /\ ~dirExists
    /\ mkdirCalls' = mkdirCalls + 1
    /\ uncaught' = "mkdir"
    /\ exitCode' = 1
    /\ pc' = "exit"
    /\ Unchanged_Run
    /\ UNCHANGED <<doc, scale_factor, mat, page_num, pix, dirExists, files,
                   openAttempts, loaded, rendered, saveAttempts, out>>

\* line 29
Mkdir ==
    /\ pc = "mkdir"
    /\ dirExists' = TRUE
    /\ mkdirCalls' = mkdirCalls + 1
    /\ pc' = "open"
    /\ Unchanged_Run
    /\ UNCHANGED <<doc, scale_factor, mat, page_num, pix, files,
                   openAttempts, loaded, rendered, saveAttempts,
                   out, exitCode, uncaught>>

\* lines 32-33, fitz.open returns the document
OpenOk ==
    /\ pc = "open"
    /\ src.parsable
    /\ openAttempts' = openAttempts + 1
    /\ doc' = [state |-> "open", page_count |-> src.page_count]
    /\ pc' = "start"
    /\ Unchanged_Run
    /\ UNCHANGED <<scale_factor, mat, page_num, pix, dirExists, files,
                   mkdirCalls, loaded, rendered, saveAttempts,
                   out, exitCode, uncaught>>

OpenFail_ExitZero ==
    /\ pc = "open"
    /\ ~src.parsable
    /\ openAttempts' = openAttempts + 1
    /\ out' = Append(out, Msg("open_error", 0))
    /\ exitCode' = 0
    /\ pc' = "exit"
    /\ Unchanged_Run
    /\ UNCHANGED <<doc, scale_factor, mat, page_num, pix, dirExists, files,
                   mkdirCalls, loaded, rendered, saveAttempts, uncaught>>

\* lines 32-36, fitz.open raises
OpenFail ==
    /\ pc = "open"
    /\ ~src.parsable
    /\ openAttempts' = openAttempts + 1
    /\ out' = Append(out, Msg("open_error", 0))
    /\ exitCode' = 1
    /\ pc' = "exit"
    /\ Unchanged_Run
    /\ UNCHANGED <<doc, scale_factor, mat, page_num, pix, dirExists, files,
                   mkdirCalls, loaded, rendered, saveAttempts, uncaught>>

\* line 38
PrintStart ==
    /\ pc = "start"
    /\ out' = Append(out, Msg("start", doc.page_count))
    /\ pc' = "scale"
    /\ Unchanged_Run
    /\ UNCHANGED <<doc, scale_factor, mat, page_num, pix, dirExists, files,
                   mkdirCalls, openAttempts, loaded, rendered, saveAttempts,
                   exitCode, uncaught>>

\* line 48: the next iteration of range(doc.page_count), or the end of it
LoopTarget(k) == IF k < doc.page_count THEN "load" ELSE "close"

\* lines 44-45 and the first evaluation of line 48
ComputeScale ==
    /\ pc = "scale"
    /\ scale_factor' = ScaleFactor(args.dpi)
    /\ mat' = Matrix(ScaleFactor(args.dpi), ScaleFactor(args.dpi))
    /\ page_num' = 0
    /\ pc' = LoopTarget(0)
    /\ Unchanged_Run
    /\ UNCHANGED <<doc, pix, dirExists, files, mkdirCalls, openAttempts,
                   loaded, rendered, saveAttempts, out, exitCode, uncaught>>

\* an exception nothing catches: traceback on stderr, exit status 1
Abort(call) ==
    /\ uncaught' = call
    /\ exitCode' = 1
    /\ pc' = "exit"
    /\ Unchanged_Run
    /\ UNCHANGED <<doc, scale_factor, mat, page_num, pix, dirExists, files,
                   mkdirCalls, openAttempts, loaded, rendered, saveAttempts,
                   out>>

\* line 49
LoadPageOk ==
    /\ pc = "load"
    /\ loaded' = Append(loaded, page_num)
    /\ pc' = "pixmap"
    /\ Unchanged_Run
    /\ UNCHANGED <<doc, scale_factor, mat, page_num, pix, dirExists, files,
                   mkdirCalls, openAttempts, rendered, saveAttempts,
                   out, exitCode, uncaught>>

\* line 49, load_page raises
LoadPageFail ==
    /\ pc = "load"
    /\ Abort("load_page")

\* line 52
GetPixmapOk ==
    /\ pc = "pixmap"
    /\ pix' = Pixmap(args.pdf, page_num, mat)
    /\ rendered' = Append(rendered, Pixmap(args.pdf, page_num, mat))
    /\ pc' = "save"
    /\ Unchanged_Run
    /\ UNCHANGED <<doc, scale_factor, mat, page_num, dirExists, files,
                   mkdirCalls, openAttempts, loaded, saveAttempts,
                   out, exitCode, uncaught>>

GetPixmapFail_Caught ==
    /\ pc = "pixmap"
    /\ out' = Append(out, Msg("save_error", page_num + 1))
    /\ page_num' = page_num + 1
    /\ pc' = LoopTarget(page_num + 1)
    /\ Unchanged_Run
    /\ UNCHANGED <<doc, scale_factor, mat, pix, dirExists, files,
                   mkdirCalls, openAttempts, loaded, rendered, saveAttempts,
                   exitCode, uncaught>>

\* line 52, get_pixmap raises
GetPixmapFail ==
    /\ pc = "pixmap"
    /\ Abort("get_pixmap")

\* lines 55, 57-59, then line 48 again
SaveOk ==
    /\ pc = "save"
    /\ files' = WriteFile(files, OutputFilename(page_num, args.format), pix)
    /\ saveAttempts' = Append(saveAttempts,
           [page |-> page_num + 1,
            name |-> OutputFilename(page_num, args.format), ok |-> TRUE])
    /\ out' = Append(out, Msg("saved", page_num + 1))
    /\ page_num' = page_num + 1
    /\ pc' = LoopTarget(page_num + 1)
    /\ Unchanged_Run
    /\ UNCHANGED <<doc, scale_factor, mat, pix, dirExists,
                   mkdirCalls, openAttempts, loaded, rendered,
                   exitCode, uncaught>>

SaveFail_Fatal ==
    /\ pc = "save"
    /\ saveAttempts' = Append(saveAttempts,
           [page |-> page_num + 1,
            name |-> OutputFilename(page_num, args.format), ok |-> FALSE])
    /\ out' = Append(out, Msg("save_error", page_num + 1))
    /\ exitCode' = 1
    /\ pc' = "exit"
    /\ Unchanged_Run
    /\ UNCHANGED <<doc, scale_factor, mat, page_num, pix, dirExists, files,
                   mkdirCalls, openAttempts, loaded, rendered, uncaught>>

\* lines 55, 57-58, 60-61, then line 48 again
SaveFail ==
    /\ pc = "save"
    /\ saveAttempts' = Append(saveAttempts,
           [page |-> page_num + 1,
            name |-> OutputFilename(page_num, args.format), ok |-> FALSE])
    /\ out' = Append(out, Msg("save_error", page_num + 1))
    /\ page_num' = page_num + 1
    /\ pc' = LoopTarget(page_num + 1)
    /\ Unchanged_Run
    /\ UNCHANGED <<doc, scale_factor, mat, pix, dirExists, files,
                   mkdirCalls, openAttempts, loaded, rendered,
                   exitCode, uncaught>>

\* line 63
Close ==
    /\ pc = "close"
    /\ doc' = [doc EXCEPT !.state = "closed"]
    /\ pc' = "complete"
    /\ Unchanged_Run
    /\ UNCHANGED <<scale_factor, mat, page_num, pix, dirExists, files,
                   mkdirCalls, openAttempts, loaded, rendered, saveAttempts,
                   out, exitCode, uncaught>>

\* line 64, then the normal end of main
Complete ==
    /\ pc = "complete"
    /\ out' = Append(out, Msg("done", 0))
    /\ exitCode' = 0
    /\ pc' = "exit"
    /\ Unchanged_Run
    /\ UNCHANGED <<doc, scale_factor, mat, page_num, pix, dirExists, files,
                   mkdirCalls, openAttempts, loaded, rendered, saveAttempts,
                   uncaught>>

Next ==
    \/ \E cl \in CommandLines, s \in SourceFiles : Main(cl, s)
    \/ \E cl \in CommandLines, s \in SourceFiles : MainUsageError(cl, s)
    \/ ValidateFail
    \/ ValidateOk
    \/ Mkdir
    \/ MkdirFail
    \/ OpenOk
    \/ OpenFail
    \/ PrintStart
    \/ ComputeScale
    \/ LoadPageOk
    \/ LoadPageFail
    \/ GetPixmapOk
    \/ GetPixmapFail
    \/ SaveOk
    \/ SaveFail
    \/ Close
    \/ Complete

Spec == Init /\ [][Next]_vars

(* ---------------- properties ---------------- *)

\* convert_pdf_to_images has been called in the current run
Invoked == pc # "idle" /\ exitCode # 2

Opened == doc.state # "none"

N == doc.page_count

\* the output folder as the current run found it
FilesBefore == IF prev.valid THEN prev.files ELSE {}

Kinds(ks) == {i \in 1..Len(out) : out[i].kind \in ks}

PageMsgs == Kinds({"saved", "save_error"})

\* the name ends in .pdf, in any case, and has something before the dot
PdfName(name) ==
    /\ Len(name) > 4
    /\ name[Len(name) - 3] = "."
    /\ name[Len(name) - 2] \in {"p", "P"}
    /\ name[Len(name) - 1] \in {"d", "D"}
    /\ name[Len(name)] \in {"f", "F"}

InvalidSource == ~src.isfile \/ ~PdfName(args.pdf)

\* the file of page p (1-based) as this run renders it
PageFile(p) ==
    [name |-> OutputFilename(p - 1, args.format),
     content |-> Pixmap(args.pdf, p - 1, mat)]

PageNames(ps) == {OutputFilename(p - 1, args.format) : p \in ps}

\* C1: when the source is not an existing regular file or its extension is
\* not .pdf in any case, the call ends with exit status 1 right after the
\* validation: no mkdir, no fitz.open, no page loaded, rendered or saved,
\* and the output folder is as it was.
C1_InvalidInputExitsEarly ==
    (Invoked /\ InvalidSource) =>
        /\ pc \in {"validate", "exit"}
        /\ mkdirCalls = 0
        /\ openAttempts = 0
        /\ doc = NoDoc
        /\ loaded = <<>> /\ rendered = <<>> /\ saveAttempts = <<>>
        /\ files = FilesBefore
        /\ (run = 1 => ~dirExists)
        /\ (pc = "exit" => exitCode = 1 /\ out = <<Msg("invalid", 0)>>)

C1_Witness ==
    /\ pc = "exit" /\ Invoked /\ run = 1
    /\ src.isfile /\ ~PdfName(args.pdf)
    /\ exitCode = 1

\* C2: when the input is valid but fitz.open fails, the run prints the
\* open error and ends with exit status 1 with no page loaded, rendered or
\* saved and no file written.
C2_OpenFailureExitsEarly ==
    (Invoked /\ ~InvalidSource /\ ~src.parsable /\ openAttempts > 0) =>
        /\ pc = "exit"
        /\ exitCode = 1
        /\ out = <<Msg("open_error", 0)>>
        /\ doc = NoDoc
        /\ loaded = <<>> /\ rendered = <<>> /\ saveAttempts = <<>>
        /\ files = FilesBefore

C2_Witness ==
    /\ pc = "exit" /\ Invoked
    /\ ~InvalidSource /\ ~src.parsable /\ openAttempts = 1
    /\ PdfName(args.pdf) /\ args.pdf # LowerStr(args.pdf)

C4_OneSaveAttemptPerPage ==
    /\ \A i \in 1..Len(saveAttempts) :
          /\ saveAttempts[i].page = i
          /\ saveAttempts[i].name = OutputFilename(i - 1, args.format)
    /\ \A i, j \in 1..Len(saveAttempts) :
          saveAttempts[i].name = saveAttempts[j].name => i = j
    /\ Len(rendered) \in {Len(saveAttempts), Len(saveAttempts) + 1}
    /\ (pc = "exit" /\ Opened) => Len(saveAttempts) = N

\* C5: no run ends with a handle it opened and did not close, and the
\* completion line is printed only once the handle is closed.
C5_HandleAlwaysClosed ==
    /\ pc = "exit" => doc.state # "open"
    /\ Kinds({"done"}) # {} => doc.state = "closed"

\* C6: for dpi > 0 the scale factor is dpi / 72 exactly, the matrix scales
\* both axes by it and nothing else, and every page of the run is rendered
\* under that one matrix.
C6_ScaleIsDpiOver72 ==
    (Opened /\ pc \notin {"start", "scale"} /\ args.dpi > 0) =>
        /\ scale_factor.den > 0
        /\ scale_factor.num * BaseDpi = args.dpi * scale_factor.den
        /\ mat.a = scale_factor /\ mat.d = scale_factor
        /\ mat.b = Zero /\ mat.c = Zero /\ mat.e = Zero /\ mat.f = Zero
        /\ \A i \in 1..Len(rendered) : rendered[i].mat = mat

C6_Witness ==
    /\ pc = "exit" /\ args.dpi = 150
    /\ Len(rendered) = MaxPages
    /\ scale_factor = [num |-> 25, den |-> 12]

\* both runs got as far as each other: neither was ended by an exception
\* the other did not meet at the same call of the same page
SameCourse ==
    /\ pc = "exit"
    /\ prev.valid
    /\ prev.uncaught = uncaught
    /\ prev.page_num = page_num

\* C7 as stated: after the same command line has run twice on the same
\* source and folder, rendering being the same both times, the folder holds
\* the same files with the same contents as after the first run.
C7_Idempotent ==
    SameCourse => files = prev.files

\* C7 amended: the same, for two runs in which every page's save attempt
\* has the same outcome.
C7_IdempotentSameSaves ==
    (SameCourse /\ SavedPages = prev.saved) => files = prev.files

C7_Witness ==
    /\ SameCourse /\ exitCode = 0
    /\ N = MaxPages
    /\ SavedPages = prev.saved
    /\ SavedPages # {} /\ FailedPages # {}

\* C8: no run computes the scale or renders a page with dpi <= 0.
C8_DpiPositive ==
    pc \in {"scale", "load", "pixmap", "save"} => args.dpi > 0

\* C9: a run that opens a document of N pages prints the start line with
\* N before any page is loaded, then one line per page in ascending order,
\* then the completion line, the handle being closed by then; a run that
\* fails validation or the open prints neither start nor completion line.
C9_MessageOrder ==
    /\ loaded # <<>> => Len(out) > 0 /\ out[1] = Msg("start", N)
    /\ Kinds({"start"}) # {} => Opened
    /\ Kinds({"done"}) # {} => doc.state = "closed"
    /\ (pc = "exit" /\ Invoked /\ ~Opened) => Kinds({"start", "done"}) = {}
    /\ (pc = "exit" /\ Opened) =>
          /\ Len(out) = N + 2
          /\ out[1] = Msg("start", N)
          /\ \A k \in 1..N :
                out[k + 1].kind \in {"saved", "save_error"} /\ out[k + 1].n = k
          /\ out[N + 2] = Msg("done", 0)

\* C10: only pix.save is guarded. The loop passes a page only after it was
\* loaded and rasterized, and every per-page line stands for a save attempt;
\* when load_page or get_pixmap raises at page k the run ends there with
\* save attempts for the pages before k only, the handle still open, no
\* completion line, and the files saved for earlier pages in place.
C10_RenderFailureAborts ==
    /\ page_num <= Len(rendered)
    /\ Len(rendered) <= Len(loaded)
    /\ Cardinality(PageMsgs) = Len(saveAttempts)
    /\ uncaught \in {"load_page", "get_pixmap"} =>
          /\ pc = "exit"
          /\ exitCode # 0
          /\ Len(saveAttempts) = page_num
          /\ \A i \in PageMsgs : out[i].n <= page_num
          /\ doc.state = "open"
          /\ Kinds({"done"}) = {}
          /\ \A p \in SavedPages : PageFile(p) \in files

C10_Witness ==
    /\ uncaught = "get_pixmap"
    /\ page_num = 1
    /\ SavedPages = {1}
    /\ Len(loaded) = 2 /\ Len(rendered) = 1

====
